---- MODULE Spec2Model ----
(***************************************************************************)
(* CacheFlow: the size-bounded LRU cache (lru/lru.go) and the lazily       *)
(* expiring TTL cache (ttlcache/ttlcache.go), each modelled as a state     *)
(* machine with one action per public method.  The two caches are          *)
(* independent objects; SpecLRU runs the first and SpecTTL the second.     *)
(* SpecClock is the TTL cache under a clock that can also be set back,     *)
(* SpecDemo the TTL demonstration of main.go, and SpecConc and SpecSeq run *)
(* lru.go statement by statement, with two goroutines and with one.        *)
(*                                                                         *)
(* Sizes and the running total are int64 in the source.  The bounds below  *)
(* keep every total far inside the int64 range, so the arithmetic is the   *)
(* mathematical one; wrap-around of the running total is outside the       *)
(* modelled range.  The clock of the TTL cache is the UnixNano reading,    *)
(* which is positive and does not run backwards in SpecTTL.                *)
(***************************************************************************)
EXTENDS Integers, Sequences, FiniteSets, Bags, TLC

\* ---- bounds ----
MaxCap  == 2     \* capacities 1..MaxCap
MaxSize == 2     \* value sizes 0..MaxSize
MaxTime == 3     \* clock readings 1..MaxTime
MaxTTL  == 2     \* ttl arguments -1..MaxTTL
MaxStart == 20   \* clock readings 1..MaxStart at the start of the demonstration run
MaxCalls == 1    \* calls each of the two concurrent goroutines makes
MaxSeqCalls == 4 \* calls the single goroutine makes

TTLs    == (-1)..MaxTTL
Keys    == {"a", "b", "c"}
TKeys   == {"k1", "k2"}
Nil     == [nil |-> TRUE]

\* cache.Value: an opaque payload that reports its own size
Values == [size : 0..MaxSize]
TValues == {[v |-> 111, size |-> 8], [v |-> 222, size |-> 8]}

Size(value) == value.size

VARIABLES
  capacity,   \* LRUCache.capacity
  size,       \* LRUCache.size, the running total
  ls,         \* LRUCache.ls: the list elements, front first; each carries its *item
  table,      \* LRUCache.table: key -> list element
  touched,    \* history: the keys held or evicted by the last call, in the order of their
              \* last touch, oldest first
  got,        \* history: the key of the latest successful Get while that key is held and
              \* has not been Put since, else ""
  inserted,   \* history: the keys held or evicted by the last call, in the order their
              \* entries were created
  lret,       \* history: the last LRU call, its result and what it evicted
  latest,     \* history: per key, the value of its latest Put while no later eviction has
              \* removed the key, else Nil
  ttable,     \* TTLCache.table: key -> item
  now,        \* the reading of time.Now().UnixNano()
  lastPut,    \* history: per key, the arguments and time of the latest TTL Put
  prevPut,    \* history: the time and ttl of the Put that the latest TTL Put overwrote, if any
  tret,       \* history: the TTL call that has just returned, its result and the keys it
              \* removed; reset when time passes
  gone,       \* history: the keys a Get or List has found expired, until their next Put
  pc,         \* the statement main is at in its TTL demonstration
  out,        \* what main has printed in its TTL demonstration
  gor,        \* the goroutines calling the LRU cache statement by statement: per
              \* goroutine the statement it is at and its local variables
  heap        \* the list elements that are unlinked from c.ls and still referenced

vars == <<capacity, size, ls, table, touched, got, inserted, lret, latest,
          ttable, now, lastPut, prevPut, tret, gone, pc, out, gor, heap>>
lruVars == <<capacity, size, ls, table, touched, got, inserted, lret, latest>>
ttlVars == <<ttable, now, lastPut, prevPut, tret, gone>>
runVars == <<pc, out, gor, heap>>

\* ---- helpers on sequences and maps ----
RECURSIVE SumSizes(_)
SumSizes(s) == IF s = <<>> THEN 0 ELSE Head(s).size + SumSizes(Tail(s))

RemoveAt(s, i) == SubSeq(s, 1, i - 1) \o SubSeq(s, i + 1, Len(s))

IndexOf(s, x) == CHOOSE i \in 1..Len(s) : s[i] = x

Without(s, x) == SelectSeq(s, LAMBDA y : y # x)

Touch(s, k) == Append(Without(s, k), k)

Only(s, K) == SelectSeq(s, LAMBDA k : k \in K)

Range(s) == {s[i] : i \in DOMAIN s}

MapDelete(m, k) == [x \in DOMAIN m \ {k} |-> m[x]]

MapSet(m, k, e) == [x \in DOMAIN m \cup {k} |-> IF x = k THEN e ELSE m[x]]

\* a Go map read: the zero value (a nil pointer) when the key is absent
NilPtr == 0

MapGet(m, k) == IF k \in DOMAIN m THEN m[k] ELSE NilPtr

\* a slice whose order carries no meaning (it follows the iteration order of a map), as the
\* bag of its elements
RECURSIVE SliceToBag(_)
SliceToBag(s) == IF s = <<>> THEN EmptyBag ELSE SetToBag({Head(s)}) (+) SliceToBag(Tail(s))

Perms(S) == {p \in [1..Cardinality(S) -> S] : \A x \in S : \E i \in DOMAIN p : p[i] = x}

\* ---- container/list operations used by the cache ----
ElemIndex(l, e) == CHOOSE i \in 1..Len(l) : l[i].id = e

NewElem(l) == CHOOSE e \in 1..(Len(l) + 1) : \A i \in 1..Len(l) : l[i].id # e

PushBack(l, e, it) == Append(l, [id |-> e, key |-> it.key, value |-> it.value, size |-> it.size])

MoveToFront(l, e) == <<l[ElemIndex(l, e)]>> \o RemoveAt(l, ElemIndex(l, e))

MoveToBack(l, e) == Append(RemoveAt(l, ElemIndex(l, e)), l[ElemIndex(l, e)])

\* ---- LRUCache ----
NoCall == [op |-> "New", key |-> "", hit |-> FALSE, found |-> FALSE, value |-> Nil,
           list |-> EmptyBag, evicted |-> <<>>, pre |-> 0]

\* one removal from the front
evictFront(c) ==
  [capacity |-> c.capacity,
   size     |-> c.size - Head(c.ls).size,
   ls       |-> Tail(c.ls),
   table    |-> MapDelete(c.table, Head(c.ls).key),
   evicted  |-> Append(c.evicted, Head(c.ls).key)]

\* an eviction pass that removes at most one entry
evictLRU_once(c) == IF c.size > c.capacity /\ c.ls # <<>> THEN evictFront(c) ELSE c

\* an eviction pass that also evicts when the total equals the capacity
RECURSIVE evictLRU_eager(_)
evictLRU_eager(c) ==
  IF c.size >= c.capacity /\ c.ls # <<>> THEN evictLRU_eager(evictFront(c)) ELSE c

\* evictLRU: the loop, run on the fields it reads and writes
RECURSIVE evictLRU(_)
evictLRU(c) ==
  IF c.size > c.capacity
    THEN IF c.ls = <<>>
           THEN c
           ELSE evictLRU(evictFront(c))
    ELSE c

NewEntry(key, value) ==
  LET e == NewElem(ls)
      it == [key |-> key, value |-> value, size |-> Size(value)]
  IN [capacity |-> capacity,
      size     |-> size + it.size,
      ls       |-> PushBack(ls, e, it),
      table    |-> MapSet(table, key, e),
      evicted  |-> <<>>]

\* an update that adds the new size without taking the old one off
PutEntry_double(key, value) ==
  IF MapGet(table, key) # NilPtr
    THEN LET e == table[key]
             i == ElemIndex(ls, e)
         IN [capacity |-> capacity,
             size     |-> size + Size(value),
             ls       |-> MoveToBack([ls EXCEPT ![i].value = value, ![i].size = Size(value)], e),
             table    |-> table,
             evicted  |-> <<>>]
    ELSE NewEntry(key, value)

\* an update that leaves the entry where it is in the list
PutEntry_noMove(key, value) ==
  IF MapGet(table, key) # NilPtr
    THEN LET e == table[key]
             i == ElemIndex(ls, e)
         IN [capacity |-> capacity,
             size     |-> size + (Size(value) - ls[i].size),
             ls       |-> [ls EXCEPT ![i].value = value, ![i].size = Size(value)],
             table    |-> table,
             evicted  |-> <<>>]
    ELSE NewEntry(key, value)

\* an update that takes the new size and keeps the old value
PutEntry_keepValue(key, value) ==
  IF MapGet(table, key) # NilPtr
    THEN LET e == table[key]
             i == ElemIndex(ls, e)
         IN [capacity |-> capacity,
             size     |-> size + (Size(value) - ls[i].size),
             ls       |-> MoveToBack([ls EXCEPT ![i].size = Size(value)], e),
             table    |-> table,
             evicted  |-> <<>>]
    ELSE NewEntry(key, value)

\* a Put that links a new entry without looking the key up
PutEntry_alwaysNew(key, value) == NewEntry(key, value)

\* the first half of Put: update in place or insert, before the eviction pass
PutEntry(key, value) ==
  IF MapGet(table, key) # NilPtr
    THEN LET e == table[key]
             i == ElemIndex(ls, e)
         IN [capacity |-> capacity,
             size     |-> size + (Size(value) - ls[i].size),
             ls       |-> MoveToBack([ls EXCEPT ![i].value = value, ![i].size = Size(value)], e),
             table    |-> table,
             evicted  |-> <<>>]
    ELSE NewEntry(key, value)

Put(key, value) ==
  LET m == PutEntry(key, value)
      c == evictLRU(m)
  IN /\ size' = c.size
     /\ ls' = c.ls
     /\ table' = c.table
     /\ touched' = Touch(Only(touched, DOMAIN table), key)
     /\ got' = IF got = key \/ got \notin DOMAIN c.table THEN "" ELSE got
     /\ inserted' = IF key \in DOMAIN table
                      THEN Only(inserted, DOMAIN table)
                      ELSE Append(Only(inserted, DOMAIN table), key)
     /\ lret' = [NoCall EXCEPT !.op = "Put", !.key = key, !.value = value,
                               !.hit = (MapGet(table, key) # NilPtr),
                               !.evicted = c.evicted, !.pre = m.size]
     /\ latest' = [k \in Keys |-> IF k \in Range(c.evicted) THEN Nil
                                 ELSE IF k = key THEN value ELSE latest[k]]
     /\ UNCHANGED <<capacity, ttlVars, runVars>>

\* a Get that returns the value without marking the entry as used
Get_noMove(key) ==
  /\ IF MapGet(table, key) = NilPtr
       THEN /\ lret' = [NoCall EXCEPT !.op = "Get", !.key = key]
            /\ touched' = Only(touched, DOMAIN table)
            /\ UNCHANGED <<ls, got>>
       ELSE LET e == table[key]
                it == ls[ElemIndex(ls, e)]
            IN /\ ls' = ls
               /\ touched' = Touch(Only(touched, DOMAIN table), key)
               /\ got' = key
               /\ lret' = [NoCall EXCEPT !.op = "Get", !.key = key,
                                         !.hit = TRUE, !.found = TRUE, !.value = it.value]
  /\ inserted' = Only(inserted, DOMAIN table)
  /\ UNCHANGED <<capacity, size, table, latest, ttlVars, runVars>>

Get(key) ==
  /\ IF MapGet(table, key) = NilPtr
       THEN /\ lret' = [NoCall EXCEPT !.op = "Get", !.key = key]
            /\ touched' = Only(touched, DOMAIN table)
            /\ UNCHANGED <<ls, got>>
       ELSE LET e == table[key]
                it == ls[ElemIndex(ls, e)]
            IN /\ ls' = MoveToBack(ls, e)
               /\ touched' = Touch(Only(touched, DOMAIN table), key)
               /\ got' = key
               /\ lret' = [NoCall EXCEPT !.op = "Get", !.key = key,
                                         !.hit = TRUE, !.found = TRUE, !.value = it.value]
  /\ inserted' = Only(inserted, DOMAIN table)
  /\ UNCHANGED <<capacity, size, table, latest, ttlVars, runVars>>

List ==
  /\ \E order \in Perms(DOMAIN table) :
       lret' = [NoCall EXCEPT !.op = "List",
                  !.list = SliceToBag([i \in DOMAIN order |->
                              <<order[i], ls[ElemIndex(ls, table[order[i]])].value>>])]
  /\ touched' = Only(touched, DOMAIN table)
  /\ inserted' = Only(inserted, DOMAIN table)
  /\ UNCHANGED <<capacity, size, ls, table, got, latest, ttlVars, runVars>>

\* ---- TTLCache ----
TNoCall == [op |-> "New", key |-> "", found |-> FALSE, value |-> Nil,
            list |-> EmptyBag, removed |-> {}]

TTLIdle ==
  /\ ttable = << >>
  /\ now = 1
  /\ lastPut = [k \in TKeys |-> Nil]
  /\ prevPut = Nil
  /\ tret = TNoCall
  /\ gone = {}

\* the expiry Put stores: now + ttl for a positive ttl, else the marker 0
Expiry(ttl) == IF ttl > 0 THEN now + ttl ELSE 0

Max(x, y) == IF x >= y THEN x ELSE y

\* a Put that never shortens what the key already has
Expiry_extend(key, ttl) ==
  IF key \in DOMAIN ttable
    THEN IF ttable[key].expiry = 0 \/ ttl <= 0 THEN 0 ELSE Max(ttable[key].expiry, now + ttl)
    ELSE Expiry(ttl)

\* a Put that also drops the entries already expired
PutTable_sweep(key, it) ==
  LET t == MapSet(ttable, key, it)
  IN [k \in {x \in DOMAIN t : ~(t[x].expiry > 0 /\ now > t[x].expiry)} |-> t[k]]

PutTable(key, it) == MapSet(ttable, key, it)

\* a Put that stores now + ttl whatever the sign of ttl
PutItem_noMarker(key, value, ttl) == [value |-> value, expiry |-> now + ttl]

PutItem_extend(key, value, ttl) == [value |-> value, expiry |-> Expiry_extend(key, ttl)]

PutItem(key, value, ttl) == [value |-> value, expiry |-> Expiry(ttl)]

TTLPutOp(key, value, ttl) ==
  /\ ttable' = PutTable(key, PutItem(key, value, ttl))
  /\ lastPut' = [lastPut EXCEPT ![key] = [t |-> now, ttl |-> ttl, value |-> value]]
  /\ prevPut' = IF lastPut[key] = Nil THEN Nil
                 ELSE [key |-> key, t |-> lastPut[key].t, ttl |-> lastPut[key].ttl]
  /\ tret' = [TNoCall EXCEPT !.op = "Put", !.key = key, !.value = value]
  /\ gone' = gone \ {key}
  /\ UNCHANGED now

TTLPut(key, value, ttl) == TTLPutOp(key, value, ttl) /\ UNCHANGED <<lruVars, runVars>>

\* the expiry test, with the comparison the wrong way round
Expired_inverted(it, n) == it.expiry > 0 /\ n < it.expiry

\* the expiry test, with >= for >
Expired_ge(it, n) == it.expiry > 0 /\ n >= it.expiry

\* the expiry test of Get and List
Expired(it, n) == it.expiry > 0 /\ n > it.expiry

\* a Get that pushes the expiry of the entry it finds
GetResult_refresh(tbl, key, n) ==
  IF key \notin DOMAIN tbl
    THEN [found |-> FALSE, value |-> Nil, table |-> tbl]
    ELSE IF Expired(tbl[key], n)
           THEN [found |-> FALSE, value |-> Nil, table |-> MapDelete(tbl, key)]
           ELSE [found |-> TRUE, value |-> tbl[key].value,
                 table |-> IF tbl[key].expiry > 0
                             THEN [tbl EXCEPT ![key].expiry = tbl[key].expiry + 1]
                             ELSE tbl]

\* a Get that reports an expired entry absent and leaves it in the table
GetResult_noDelete(tbl, key, n) ==
  IF key \notin DOMAIN tbl
    THEN [found |-> FALSE, value |-> Nil, table |-> tbl]
    ELSE IF Expired(tbl[key], n)
           THEN [found |-> FALSE, value |-> Nil, table |-> tbl]
           ELSE [found |-> TRUE, value |-> tbl[key].value, table |-> tbl]

\* Get as a function of the table, the key and the clock reading
GetResult(tbl, key, n) ==
  IF key \notin DOMAIN tbl
    THEN [found |-> FALSE, value |-> Nil, table |-> tbl]
    ELSE IF Expired(tbl[key], n)
           THEN [found |-> FALSE, value |-> Nil, table |-> MapDelete(tbl, key)]
           ELSE [found |-> TRUE, value |-> tbl[key].value, table |-> tbl]

TTLGetOp(key) ==
  LET r == GetResult(ttable, key, now)
  IN /\ ttable' = r.table
     /\ tret' = [TNoCall EXCEPT !.op = "Get", !.key = key, !.found = r.found,
                                !.value = r.value, !.removed = DOMAIN ttable \ DOMAIN r.table]
     /\ gone' = IF key \in DOMAIN ttable /\ ~r.found THEN gone \cup {key} ELSE gone
     /\ UNCHANGED <<now, lastPut, prevPut>>

TTLGet(key) == TTLGetOp(key) /\ UNCHANGED <<lruVars, runVars>>

\* a scan that skips the expired entries and leaves them in the table
ListLoop_noDelete(order, tbl, n, acc) ==
  [table |-> tbl,
   list  |-> SelectSeq([i \in DOMAIN order |-> <<order[i], tbl[order[i]].value>>],
                       LAMBDA p : ~Expired(tbl[p[1]], n))]

\* the loop of List over the keys in the order the map yields them
RECURSIVE ListLoop(_, _, _, _)
ListLoop(order, tbl, n, acc) ==
  IF order = <<>>
    THEN [table |-> tbl, list |-> acc]
    ELSE IF Expired(tbl[Head(order)], n)
           THEN ListLoop(Tail(order), MapDelete(tbl, Head(order)), n, acc)
           ELSE ListLoop(Tail(order), tbl, n,
                         Append(acc, <<Head(order), tbl[Head(order)].value>>))

TTLListOp ==
  /\ \E order \in Perms(DOMAIN ttable) :
       LET r == ListLoop(order, ttable, now, <<>>)
       IN /\ ttable' = r.table
          /\ tret' = [TNoCall EXCEPT !.op = "List", !.list = SliceToBag(r.list),
                                     !.removed = DOMAIN ttable \ DOMAIN r.table]
          /\ gone' = gone \cup (DOMAIN ttable \ {r.list[i][1] : i \in DOMAIN r.list})
  /\ UNCHANGED <<now, lastPut, prevPut>>

TTLList == TTLListOp /\ UNCHANGED <<lruVars, runVars>>

\* time passes between two calls
Tick ==
  /\ now < MaxTime
  /\ now' = now + 1
  /\ tret' = TNoCall
  /\ UNCHANGED <<ttable, lastPut, prevPut, gone, lruVars, runVars>>

\* the wall clock is set back between two calls
TickBack ==
  /\ now > 1
  /\ now' = now - 1
  /\ tret' = TNoCall
  /\ UNCHANGED <<ttable, lastPut, prevPut, gone, lruVars, runVars>>

\* main is not running its demonstration and no goroutine is calling the cache
RunIdle ==
  /\ pc = 0
  /\ out = <<>>
  /\ gor = << >>
  /\ heap = << >>

LRUIdle ==
  /\ capacity = 1
  /\ size = 0
  /\ ls = <<>>
  /\ table = << >>
  /\ touched = <<>>
  /\ got = ""
  /\ inserted = <<>>
  /\ lret = NoCall
  /\ latest = [k \in Keys |-> Nil]

InitTTL ==
  /\ ttable = << >>
  /\ now = 1
  /\ lastPut = [k \in TKeys |-> Nil]
  /\ prevPut = Nil
  /\ tret = TNoCall
  /\ gone = {}
  /\ LRUIdle
  /\ RunIdle

NextTTL ==
  \/ \E key \in TKeys, value \in TValues, ttl \in TTLs : TTLPut(key, value, ttl)
  \/ \E key \in TKeys : TTLGet(key)
  \/ TTLList
  \/ Tick

SpecTTL == InitTTL /\ [][NextTTL]_vars

\* the TTL cache under a wall clock that can also be set back; one payload, and 0 for the
\* ttl arguments that never expire
NextClock ==
  \/ \E key \in TKeys, ttl \in 0..MaxTTL : TTLPut(key, [v |-> 111, size |-> 8], ttl)
  \/ \E key \in TKeys : TTLGet(key)
  \/ TTLList
  \/ Tick
  \/ TickBack

SpecClock == InitTTL /\ [][NextClock]_vars

\* ---- the TTL demonstration of main, with the clock in seconds ----
IntValue(n) == [v |-> n, size |-> 8]

DemoTTL == 5

DemoSleep == 6

DemoDone == 8

InitDemo ==
  /\ ttable = << >>
  /\ now \in 1..MaxStart
  /\ lastPut = [k \in TKeys |-> Nil]
  /\ prevPut = Nil
  /\ tret = TNoCall
  /\ gone = {}
  /\ pc = 1
  /\ out = <<>>
  /\ gor = << >>
  /\ heap = << >>
  /\ LRUIdle

DemoPutK1 ==
  /\ pc = 1
  /\ TTLPutOp("k1", IntValue(111), DemoTTL)
  /\ pc' = 2
  /\ UNCHANGED <<out, gor, heap, lruVars>>

DemoPutK2 ==
  /\ pc = 2
  /\ TTLPutOp("k2", IntValue(222), 2 * DemoTTL)
  /\ pc' = 3
  /\ UNCHANGED <<out, gor, heap, lruVars>>

DemoListInitial ==
  /\ pc = 3
  /\ TTLListOp
  /\ out' = Append(out, tret'.list)
  /\ pc' = 4
  /\ UNCHANGED <<gor, heap, lruVars>>

DemoGetK1 ==
  /\ pc = 4
  /\ TTLGetOp("k1")
  /\ out' = Append(out, <<tret'.value, tret'.found>>)
  /\ pc' = 5
  /\ UNCHANGED <<gor, heap, lruVars>>

DemoSleeping ==
  /\ pc = 5
  /\ now' = now + DemoSleep
  /\ tret' = TNoCall
  /\ pc' = 6
  /\ UNCHANGED <<ttable, lastPut, prevPut, gone, out, gor, heap, lruVars>>

DemoGetAfter ==
  /\ pc = 6
  /\ TTLGetOp("k1")
  /\ out' = Append(out, <<tret'.value, tret'.found>>)
  /\ pc' = 7
  /\ UNCHANGED <<gor, heap, lruVars>>

DemoListAfter ==
  /\ pc = 7
  /\ TTLListOp
  /\ out' = Append(out, tret'.list)
  /\ pc' = DemoDone
  /\ UNCHANGED <<gor, heap, lruVars>>

NextDemo ==
  \/ DemoPutK1
  \/ DemoPutK2
  \/ DemoListInitial
  \/ DemoGetK1
  \/ DemoSleeping
  \/ DemoGetAfter
  \/ DemoListAfter

SpecDemo == InitDemo /\ [][NextDemo]_vars

InitLRU ==
  /\ capacity \in 1..MaxCap
  /\ size = 0
  /\ ls = <<>>
  /\ table = << >>
  /\ touched = <<>>
  /\ got = ""
  /\ inserted = <<>>
  /\ lret = NoCall
  /\ latest = [k \in Keys |-> Nil]
  /\ TTLIdle
  /\ RunIdle

NextLRU ==
  \/ \E key \in Keys, value \in Values : Put(key, value)
  \/ \E key \in Keys : Get(key)
  \/ List

SpecLRU == InitLRU /\ [][NextLRU]_vars

\* ---- LRUCache, statement by statement, called by goroutines ----
\* Each goroutine calls Put, Get and List one after the other.  A step is one statement of
\* lru.go, and a statement that reads and writes c.size is two steps, the load and the
\* store.  List reads only and is one step.
Goroutines == {1, 2}

Idle(left) ==
  [pc |-> "idle", op |-> "", key |-> "", value |-> Nil, entry |-> NilPtr, front |-> NilPtr,
   reg |-> 0, iters |-> 0, start |-> 0, left |-> left]

Linked(l, e) == \E i \in DOMAIN l : l[i].id = e

\* the *item behind a list element, linked or not
ItemOf(e) == IF Linked(ls, e) THEN ls[ElemIndex(ls, e)] ELSE heap[e]

\* an element no pointer refers to
FreshElem ==
  CHOOSE e \in 1..(Len(ls) + Cardinality(DOMAIN heap) + 1) :
    ~Linked(ls, e) /\ e \notin DOMAIN heap

\* list.Remove that leaves the element linked
ListRemove_keep(l, e) == l

\* list.Remove of an element of the list
ListRemove(l, e) == RemoveAt(l, ElemIndex(l, e))

\* the unlinked elements that the table or a local variable still points to
Collect(h, l, t, gs) ==
  [e \in {x \in DOMAIN h : /\ ~Linked(l, x)
                            /\ \/ x \in Range(t)
                               \/ \E g \in DOMAIN gs : x \in {gs[g].entry, gs[g].front}}
     |-> h[e]]

stepFrame == <<capacity, touched, got, inserted, lret, latest, ttlVars, pc, out>>

\* one step of goroutine g: its locals become r, the fields of the cache s, l and t
Step(g, r, s, l, t, h) ==
  /\ gor' = [gor EXCEPT ![g] = r]
  /\ size' = s
  /\ ls' = l
  /\ table' = t
  /\ heap' = Collect(h, l, t, gor')
  /\ UNCHANGED stepFrame

\* the write of one item, in the list or unlinked
WriteItem(g, r, e, it) ==
  IF Linked(ls, e)
    THEN Step(g, r, size, [ls EXCEPT ![ElemIndex(ls, e)] = it], table, heap)
    ELSE Step(g, r, size, ls, table, [heap EXCEPT ![e] = it])

Call(g) ==
  /\ g \in DOMAIN gor
  /\ gor[g].pc = "idle"
  /\ gor[g].left > 0
  /\ \E op \in {"Put", "Get", "List"}, key \in Keys, value \in Values :
       Step(g, [Idle(gor[g].left - 1) EXCEPT
                  !.pc = IF op = "Put" THEN "put34" ELSE IF op = "Get" THEN "get56" ELSE "list81",
                  !.op = op,
                  !.key = IF op = "List" THEN "" ELSE key,
                  !.value = IF op = "Put" THEN value ELSE Nil],
            size, ls, table, heap)

PutLookup(g) ==
  /\ g \in DOMAIN gor
  /\ gor[g].pc = "put34"
  /\ LET e == MapGet(table, gor[g].key)
     IN Step(g, [gor[g] EXCEPT !.entry = e,
                               !.pc = IF e # NilPtr THEN "put37" ELSE "put43"],
             size, ls, table, heap)

PutLoadSize(g) ==
  /\ g \in DOMAIN gor
  /\ gor[g].pc = "put37"
  /\ Step(g, [gor[g] EXCEPT !.reg = size + (Size(gor[g].value) - ItemOf(gor[g].entry).size),
                            !.pc = "put37w"],
          size, ls, table, heap)

PutStoreSize(g) ==
  /\ g \in DOMAIN gor
  /\ gor[g].pc = "put37w"
  /\ Step(g, [gor[g] EXCEPT !.reg = 0, !.pc = "put38"], gor[g].reg, ls, table, heap)

PutSetValue(g) ==
  /\ g \in DOMAIN gor
  /\ gor[g].pc = "put38"
  /\ WriteItem(g, [gor[g] EXCEPT !.pc = "put39"], gor[g].entry,
               [ItemOf(gor[g].entry) EXCEPT !.value = gor[g].value])

PutSetSize(g) ==
  /\ g \in DOMAIN gor
  /\ gor[g].pc = "put39"
  /\ WriteItem(g, [gor[g] EXCEPT !.pc = "put40"], gor[g].entry,
               [ItemOf(gor[g].entry) EXCEPT !.size = Size(gor[g].value)])

PutMoveToBack(g) ==
  /\ g \in DOMAIN gor
  /\ gor[g].pc = "put40"
  /\ LET l == IF Linked(ls, gor[g].entry) THEN MoveToBack(ls, gor[g].entry) ELSE ls
     IN Step(g, [gor[g] EXCEPT !.entry = NilPtr, !.start = Len(l), !.pc = "evict67"],
             size, l, table, heap)

PutPushBack(g) ==
  /\ g \in DOMAIN gor
  /\ gor[g].pc = "put43"
  /\ LET e == FreshElem
         it == [key |-> gor[g].key, value |-> gor[g].value, size |-> Size(gor[g].value)]
     IN Step(g, [gor[g] EXCEPT !.entry = e, !.pc = "put48"],
             size, PushBack(ls, e, it), table, heap)

PutStoreTable(g) ==
  /\ g \in DOMAIN gor
  /\ gor[g].pc = "put48"
  /\ Step(g, [gor[g] EXCEPT !.pc = "put49"],
          size, ls, MapSet(table, gor[g].key, gor[g].entry), heap)

PutAddLoad(g) ==
  /\ g \in DOMAIN gor
  /\ gor[g].pc = "put49"
  /\ Step(g, [gor[g] EXCEPT !.reg = size + ItemOf(gor[g].entry).size, !.pc = "put49w"],
          size, ls, table, heap)

PutAddStore(g) ==
  /\ g \in DOMAIN gor
  /\ gor[g].pc = "put49w"
  /\ Step(g, [gor[g] EXCEPT !.reg = 0, !.entry = NilPtr, !.start = Len(ls), !.pc = "evict67"],
          gor[g].reg, ls, table, heap)

EvictTest(g) ==
  /\ g \in DOMAIN gor
  /\ gor[g].pc = "evict67"
  /\ Step(g, [gor[g] EXCEPT !.pc = IF size > capacity THEN "evict68" ELSE "ret"],
          size, ls, table, heap)

EvictReadFront(g) ==
  /\ g \in DOMAIN gor
  /\ gor[g].pc = "evict68"
  /\ IF ls = <<>>
       THEN Step(g, [gor[g] EXCEPT !.pc = "ret"], size, ls, table, heap)
       ELSE Step(g, [gor[g] EXCEPT !.front = Head(ls).id, !.pc = "evict73"],
                 size, ls, table, heap)

EvictRemove(g) ==
  /\ g \in DOMAIN gor
  /\ gor[g].pc = "evict73"
  /\ LET e == gor[g].front
         r == [gor[g] EXCEPT !.iters = @ + 1, !.pc = "evict74"]
     IN IF Linked(ls, e)
          THEN Step(g, r, size, ListRemove(ls, e), table,
                    [x \in DOMAIN heap \cup {e} |-> IF x = e THEN ItemOf(e) ELSE heap[x]])
          ELSE Step(g, r, size, ls, table, heap)

EvictDelete(g) ==
  /\ g \in DOMAIN gor
  /\ gor[g].pc = "evict74"
  /\ Step(g, [gor[g] EXCEPT !.pc = "evict75"],
          size, ls, MapDelete(table, ItemOf(gor[g].front).key), heap)

EvictLoadSize(g) ==
  /\ g \in DOMAIN gor
  /\ gor[g].pc = "evict75"
  /\ Step(g, [gor[g] EXCEPT !.reg = size - ItemOf(gor[g].front).size, !.pc = "evict75w"],
          size, ls, table, heap)

EvictStoreSize(g) ==
  /\ g \in DOMAIN gor
  /\ gor[g].pc = "evict75w"
  /\ Step(g, [gor[g] EXCEPT !.reg = 0, !.front = NilPtr, !.pc = "evict67"],
          gor[g].reg, ls, table, heap)

GetLookup(g) ==
  /\ g \in DOMAIN gor
  /\ gor[g].pc = "get56"
  /\ LET e == MapGet(table, gor[g].key)
     IN Step(g, [gor[g] EXCEPT !.entry = e,
                               !.pc = IF e = NilPtr THEN "ret" ELSE "get61"],
             size, ls, table, heap)

GetMoveToBack(g) ==
  /\ g \in DOMAIN gor
  /\ gor[g].pc = "get61"
  /\ LET l == IF Linked(ls, gor[g].entry) THEN MoveToBack(ls, gor[g].entry) ELSE ls
     IN Step(g, [gor[g] EXCEPT !.pc = "ret"], size, l, table, heap)

ListAll(g) ==
  /\ g \in DOMAIN gor
  /\ gor[g].pc = "list81"
  /\ Step(g, [gor[g] EXCEPT !.pc = "ret"], size, ls, table, heap)

Return(g) ==
  /\ g \in DOMAIN gor
  /\ gor[g].pc = "ret"
  /\ Step(g, Idle(gor[g].left), size, ls, table, heap)

NextRun ==
  \E g \in Goroutines :
    \/ Call(g)
    \/ PutLookup(g)
    \/ PutLoadSize(g)
    \/ PutStoreSize(g)
    \/ PutSetValue(g)
    \/ PutSetSize(g)
    \/ PutMoveToBack(g)
    \/ PutPushBack(g)
    \/ PutStoreTable(g)
    \/ PutAddLoad(g)
    \/ PutAddStore(g)
    \/ EvictTest(g)
    \/ EvictReadFront(g)
    \/ EvictRemove(g)
    \/ EvictDelete(g)
    \/ EvictLoadSize(g)
    \/ EvictStoreSize(g)
    \/ GetLookup(g)
    \/ GetMoveToBack(g)
    \/ ListAll(g)
    \/ Return(g)

InitRun(n, calls) ==
  /\ capacity \in 1..MaxCap
  /\ size = 0
  /\ ls = <<>>
  /\ table = << >>
  /\ touched = <<>>
  /\ got = ""
  /\ inserted = <<>>
  /\ lret = NoCall
  /\ latest = [k \in Keys |-> Nil]
  /\ TTLIdle
  /\ pc = 0
  /\ out = <<>>
  /\ gor = [g \in 1..n |-> Idle(calls)]
  /\ heap = << >>

\* two goroutines share one cache without a lock
InitConc == InitRun(2, MaxCalls)

SpecConc == InitConc /\ [][NextRun]_vars

\* one goroutine; a call that has started keeps being scheduled
InitSeq == InitRun(1, MaxSeqCalls)

SpecSeq == InitSeq /\ [][NextRun]_vars /\ WF_vars(NextRun)

\* ---- properties of the LRU cache ----
HeldKeys == {ls[i].key : i \in DOMAIN ls}

Pos(s, k) == IndexOf(s, k)

EntriesOf(l, k) == SelectSeq(l, LAMBDA el : el.key = k)

Last(s) == s[Len(s)]

\* C1: after every Put (and after every other call) the sizes of the entries held sum to at
\* most the capacity.
CapacityInvariant == SumSizes(ls) <= capacity

\* a Put on an existing key forced an eviction and the cache is left non-empty
CapacityWitness ==
  /\ lret.op = "Put" /\ lret.hit
  /\ lret.evicted # <<>>
  /\ ls # <<>>
  /\ lret.pre > capacity

\* C2: the list is ordered by the time of the last Put or successful Get of each key, front
\* oldest, and every key a Put evicts was last touched strictly before every key that is
\* still held after that Put.
TrueLRUOrder ==
  /\ \A i, j \in DOMAIN ls : i < j => Pos(touched, ls[i].key) < Pos(touched, ls[j].key)
  /\ lret.op = "Put" =>
       \A e \in Range(lret.evicted), s \in HeldKeys : Pos(touched, e) < Pos(touched, s)

\* a Put evicted a key whose entry was created after the entry of a key that survives
TrueLRUWitness ==
  /\ lret.op = "Put"
  /\ \E e \in Range(lret.evicted), s \in HeldKeys \ {lret.key} :
       Pos(inserted, s) < Pos(inserted, e)

\* C3 as stated: after a successful Get(k), a later Put that evicts something does not evict
\* k when another held key, not the one being Put, was last touched before k.
RecencyOnReadAsStated ==
  [][(/\ lret'.op = "Put"
      /\ lret'.evicted # <<>>
      /\ got # "" /\ got # lret'.key
      /\ \E j \in DOMAIN table \ {got, lret'.key} : Pos(touched, j) < Pos(touched, got))
     => got \in DOMAIN table']_vars

\* C3, amended: after a successful Get(k), a later Put evicts k only together with every
\* other held key that was last touched before k and is not the key being Put.
RecencyOnRead ==
  [][(lret'.op = "Put" /\ got # "")
     => \A j \in DOMAIN table \ {got, lret'.key} :
          (Pos(touched, j) < Pos(touched, got) /\ got \notin DOMAIN table')
            => j \notin DOMAIN table']_vars

\* a Put evicted a key older than the key of the latest Get, and that key is still held
RecencyOnReadWitness ==
  /\ lret.op = "Put"
  /\ got # "" /\ got # lret.key /\ got \in DOMAIN table
  /\ \E e \in Range(lret.evicted) : Pos(touched, e) < Pos(touched, got)

\* C4: after every call the running total is the sum of the sizes held; a Put on an existing
\* key moves the total, before eviction, by the new size minus the old one, a Put on a new
\* key by the new size, and the key then has one entry (none if it was evicted).
SizeAccounting ==
  [][/\ size' = SumSizes(ls')
     /\ lret'.op = "Put" =>
          LET k == lret'.key
              v == lret'.value
          IN /\ k \in DOMAIN table => lret'.pre = size + Size(v) - EntriesOf(ls, k)[1].size
             /\ k \notin DOMAIN table => lret'.pre = size + Size(v)
             /\ Len(EntriesOf(ls', k)) = (IF k \in DOMAIN table' THEN 1 ELSE 0)
             /\ k \in DOMAIN table' =>
                  /\ EntriesOf(ls', k)[1].value = v
                  /\ EntriesOf(ls', k)[1].size = Size(v)]_vars

\* a Put on an existing key grew the total past the capacity and the key is still held
SizeAccountingWitness ==
  /\ lret.op = "Put" /\ lret.hit
  /\ lret.pre > capacity
  /\ lret.key \in DOMAIN table
  /\ Len(ls) >= 2

\* C5: after Put(k, v), k is held iff Size(v) <= capacity; when Size(v) > capacity the pass
\* evicted k last, after every other entry, and left the cache empty with total 0.
OversizedPut ==
  lret.op = "Put" =>
    /\ lret.key \in DOMAIN table <=> Size(lret.value) <= capacity
    /\ Size(lret.value) > capacity =>
         /\ ls = <<>> /\ DOMAIN table = {} /\ size = 0
         /\ lret.evicted # <<>>
         /\ Last(lret.evicted) = lret.key
         /\ \A i \in 1..(Len(lret.evicted) - 1) : lret.evicted[i] # lret.key

\* an oversized Put on an existing key emptied a cache that held other entries too
OversizedPutWitness ==
  /\ lret.op = "Put" /\ lret.hit
  /\ Size(lret.value) > capacity
  /\ Len(lret.evicted) >= 2

\* C11: Get(k) returns the value of the latest Put(k, v) with found when k has been Put and
\* not evicted since, and (nil, false) otherwise.
GetResultLRU ==
  [][lret'.op = "Get" =>
       IF latest[lret'.key] # Nil
         THEN lret'.found /\ lret'.value = latest[lret'.key]
         ELSE ~lret'.found /\ lret'.value = Nil]_vars

\* a Get found a key while another key, Put earlier, had been evicted
GetResultWitness ==
  /\ lret.op = "Get" /\ lret.found
  /\ lret.value = latest[lret.key]
  /\ \E k \in Keys \ {lret.key} : latest[k] # Nil

\* the sizes, before the eviction pass of Put(key, value), of the first n keys of a sequence
RECURSIVE SizesBefore(_, _, _)
SizesBefore(keys, key, value) ==
  IF keys = <<>> THEN 0
  ELSE (IF Head(keys) = key THEN Size(value) ELSE EntriesOf(ls, Head(keys))[1].size)
       + SizesBefore(Tail(keys), key, value)

KeysOf(l) == [i \in DOMAIN l |-> l[i].key]

\* C14: a Put evicts the shortest prefix of the recency order (the key just Put is newest)
\* whose removal brings the total to the capacity or below, nothing when the total after the
\* update is within the capacity, and no other call removes a key.
EvictionMinimality ==
  [][/\ lret'.op = "Put" =>
          LET k == lret'.key
              v == lret'.value
              ev == lret'.evicted
          IN /\ ev \o KeysOf(ls') = Touch(KeysOf(ls), k)
             /\ DOMAIN table' = (DOMAIN table \cup {k}) \ Range(ev)
             /\ size' <= capacity \/ ls' = <<>>
             /\ \A n \in 0..(Len(ev) - 1) :
                  lret'.pre - SizesBefore(SubSeq(ev, 1, n), k, v) > capacity
             /\ lret'.pre <= capacity => ev = <<>>
     /\ lret'.op # "Put" => (DOMAIN table' = DOMAIN table /\ HeldKeys' = HeldKeys)]_vars

\* a Put evicted one entry and stopped although more entries were left to evict
EvictionMinimalityWitness ==
  /\ lret.op = "Put"
  /\ Len(lret.evicted) = 1
  /\ Len(ls) >= 2
  /\ size = capacity

\* C15: List returns the pairs held, each once, and changes nothing; a Get of an absent key
\* changes nothing; a Get of a held key only moves that entry to the back of the list.
ReadsFrame ==
  [][/\ lret'.op = "List" =>
          /\ BagToSet(lret'.list) = {<<ls[i].key, ls[i].value>> : i \in DOMAIN ls}
          /\ \A p \in BagToSet(lret'.list) : CopiesIn(p, lret'.list) = 1
          /\ UNCHANGED <<capacity, size, ls, table>>
     /\ (lret'.op = "Get" /\ lret'.key \notin DOMAIN table) =>
          UNCHANGED <<capacity, size, ls, table>>
     /\ (lret'.op = "Get" /\ lret'.key \in DOMAIN table) =>
          /\ UNCHANGED <<capacity, size, table>>
          /\ ls' = SelectSeq(ls, LAMBDA el : el.key # lret'.key) \o EntriesOf(ls, lret'.key)]_vars

\* a Get moved the entry created first from the front to the back of three entries
ReadsFrameWitness ==
  /\ lret.op = "Get" /\ lret.found
  /\ Len(ls) >= 3
  /\ Pos(inserted, lret.key) = 1
  /\ Last(ls).key = lret.key

\* C18: the table and the list describe the same entries: every table key maps to the list
\* element that carries that key, every list key is in the table, no key is in the list
\* twice, and the two have the same number of entries.
IndexListConsistency ==
  /\ \A k \in DOMAIN table :
       \E i \in DOMAIN ls : ls[i].id = table[k] /\ ls[i].key = k
  /\ \A i \in DOMAIN ls : ls[i].key \in DOMAIN table
  /\ \A i, j \in DOMAIN ls : i # j => (ls[i].key # ls[j].key /\ ls[i].id # ls[j].id)
  /\ Cardinality(DOMAIN table) = Len(ls)

\* a Put on an existing key evicted another entry and three entries are indexed
IndexListWitness ==
  /\ lret.op = "Put" /\ lret.hit
  /\ lret.evicted # <<>>
  /\ Len(ls) >= 2
  /\ Cardinality(DOMAIN table) = Len(ls)

\* ---- properties of the TTL cache ----
\* the instant the latest Put of k gave it, from the arguments of that Put
Deadline(k) == lastPut[k].t + lastPut[k].ttl

Listed(l) == {p[1] : p \in BagToSet(l)}

\* C6: an entry Put with ttl <= 0 is found by every later Get; an entry Put at t with
\* ttl = d > 0 is found by every Get before t + d and not found by every Get after t + d,
\* and after a Get of the key or a List issued after t + d it is no longer in the table.
LazyExpiry ==
  [][\A k \in TKeys : lastPut[k] # Nil =>
       /\ (tret'.op = "Get" /\ tret'.key = k) =>
            /\ lastPut[k].ttl <= 0 => (tret'.found /\ tret'.value = lastPut[k].value)
            /\ (lastPut[k].ttl > 0 /\ now < Deadline(k)) =>
                 (tret'.found /\ tret'.value = lastPut[k].value)
            /\ (lastPut[k].ttl > 0 /\ now > Deadline(k)) =>
                 (~tret'.found /\ k \notin DOMAIN ttable')
       /\ (tret'.op = "List" /\ lastPut[k].ttl > 0 /\ now > Deadline(k)) =>
            (k \notin DOMAIN ttable' /\ k \notin Listed(tret'.list))]_vars

\* the first Get after the deadline of a positive ttl reported not-found and removed the entry
LazyExpiryWitness ==
  /\ tret.op = "Get" /\ ~tret.found
  /\ tret.removed = {tret.key}
  /\ lastPut[tret.key].ttl > 0
  /\ now > Deadline(tret.key)

\* C7 as stated: an entry is present iff it has no expiry or now is strictly before its
\* expiry, so a Get or List at now = expiry reports it absent.
ExpiryBoundaryAsStated ==
  [][/\ (tret'.op = "Get" /\ tret'.key \in DOMAIN ttable) =>
          (tret'.found <=> (ttable[tret'.key].expiry = 0 \/ now < ttable[tret'.key].expiry))
     /\ tret'.op = "List" =>
          \A k \in DOMAIN ttable :
            k \in Listed(tret'.list) <=> (ttable[k].expiry = 0 \/ now < ttable[k].expiry)]_vars

\* C7, amended: an entry is present iff it has no expiry or now is at or before its expiry,
\* so a Get or List at now = expiry still reports it present.
ExpiryBoundary ==
  [][/\ (tret'.op = "Get" /\ tret'.key \in DOMAIN ttable) =>
          (tret'.found <=> (ttable[tret'.key].expiry = 0 \/ now <= ttable[tret'.key].expiry))
     /\ tret'.op = "List" =>
          \A k \in DOMAIN ttable :
            k \in Listed(tret'.list) <=> (ttable[k].expiry = 0 \/ now <= ttable[k].expiry)]_vars

\* a Get issued exactly at the stored expiry found the entry
ExpiryBoundaryWitness ==
  /\ tret.op = "Get" /\ tret.found
  /\ ttable[tret.key].expiry = now

\* C8: once a key has been Put again, a Get of it is decided by the second Put alone: it is
\* found iff the second ttl is <= 0 or the second deadline has not passed, and it returns
\* the second value; the first ttl neither expires, keeps alive nor extends the entry.
OverwriteSemantics ==
  [][(/\ tret'.op = "Get"
      /\ prevPut # Nil
      /\ prevPut.key = tret'.key)
     => LET k == tret'.key
        IN /\ tret'.found <=> (lastPut[k].ttl <= 0 \/ now <= Deadline(k))
           /\ tret'.found => tret'.value = lastPut[k].value
           /\ ~tret'.found => k \notin DOMAIN ttable']_vars

\* a Get found a key re-Put without expiry after the deadline of its first, finite ttl
OverwriteWitness ==
  /\ tret.op = "Get" /\ tret.found
  /\ prevPut # Nil /\ prevPut.key = tret.key
  /\ prevPut.ttl > 0 /\ now > prevPut.t + prevPut.ttl
  /\ lastPut[tret.key].ttl <= 0

\* C9: a key leaves the table only in a Get of that key or in a List, and only when its
\* deadline has passed; Put, Get of another key and the passage of time remove nothing.
LazyRemovalOnly ==
  [][\A k \in DOMAIN ttable : k \notin DOMAIN ttable' =>
       /\ now' = now
       /\ (tret'.op = "Get" /\ tret'.key = k) \/ tret'.op = "List"
       /\ lastPut[k].ttl > 0 /\ now > Deadline(k)]_vars

\* a Get of another key and a Put have run after the deadline of an entry that is still
\* in the table
LazyRemovalWitness ==
  \E k \in DOMAIN ttable :
    /\ lastPut[k].ttl > 0 /\ now > Deadline(k)
    /\ tret.op \in {"Get", "Put"} /\ tret.key # k

\* C10: List returns, each once, the pairs of the entries not expired at now, leaves those
\* entries in the table unchanged and no expired entry in it, and lists a key exactly when
\* a Get of it at the same instant reports found.
ListResult ==
  [][tret'.op = "List" =>
       LET live == {k \in DOMAIN ttable :
                      lastPut[k].ttl <= 0 \/ now <= Deadline(k)}
       IN /\ BagToSet(tret'.list) = {<<k, lastPut[k].value>> : k \in live}
          /\ \A p \in BagToSet(tret'.list) : CopiesIn(p, tret'.list) = 1
          /\ DOMAIN ttable' = live
          /\ \A k \in live : ttable'[k] = ttable[k]
          /\ \A k \in TKeys : k \in Listed(tret'.list) <=> GetResult(ttable, k, now).found]_vars

\* a List removed an expired entry and returned another one
ListResultWitness ==
  /\ tret.op = "List"
  /\ tret.removed # {}
  /\ tret.list # EmptyBag

\* C16: a Get that finds a key leaves the whole table as it was, the stored expiry of that
\* key included, so an entry Put at t with ttl = d > 0 is not found by a Get after t + d
\* whatever Gets found it before.
NoRefreshOnGet ==
  [][tret'.op = "Get" =>
       LET k == tret'.key
       IN /\ tret'.found =>
               /\ ttable' = ttable
               /\ lastPut[k].ttl > 0 => ttable'[k].expiry = Deadline(k)
               /\ lastPut[k].ttl <= 0 => ttable'[k].expiry = 0
          /\ (lastPut[k] # Nil /\ lastPut[k].ttl > 0 /\ now > Deadline(k)) => ~tret'.found]_vars

\* a Get, later than the Put, found an entry with a positive ttl whose expiry is still the
\* one the Put gave it
NoRefreshWitness ==
  /\ tret.op = "Get" /\ tret.found
  /\ lastPut[tret.key].ttl > 0
  /\ now > lastPut[tret.key].t
  /\ ttable[tret.key].expiry = Deadline(tret.key)

\* C19: once a Get or a List has found k expired, every Get of k reports not-found and every
\* List leaves k out until k is Put again, also when the clock has been set back since.
ObservedExpiryPermanent ==
  [][/\ (tret'.op = "Get" /\ tret'.key \in gone) => ~tret'.found
     /\ tret'.op = "List" => Listed(tret'.list) \cap gone = {}]_vars

\* a Get reported not-found for a key found expired earlier, at a clock reading before the
\* deadline of that key
ObservedExpiryWitness ==
  /\ tret.op = "Get" /\ ~tret.found
  /\ tret.key \in gone /\ tret.key \notin DOMAIN ttable /\ tret.removed = {}
  /\ lastPut[tret.key].ttl > 0
  /\ now < Deadline(tret.key)

\* C13: in the demonstration run (Put k1 with 5 s, Put k2 with 10 s, List, Get k1, 6 s of
\* sleep, Get k1, List) the first List returns both pairs, the first Get returns (111, true),
\* the Get after the sleep returns (nil, false) and the last List returns nothing.
DemoOutputAsDocumented ==
  pc = DemoDone =>
    out = << SliceToBag(<< <<"k1", IntValue(111)>>, <<"k2", IntValue(222)>> >>),
             <<IntValue(111), TRUE>>,
             <<Nil, FALSE>>,
             EmptyBag >>

Busy(g) == g \in DOMAIN gor /\ gor[g].pc # "idle"

AtIdle(g) == g \in DOMAIN gor /\ gor[g].pc = "idle"

Quiescent == \A g \in DOMAIN gor : gor[g].pc \in {"idle", "ret"}

\* C12: when the calls of two goroutines on one LRU cache, interleaved statement by
\* statement, have all returned, the running total equals the sum of the held sizes and is
\* at most the capacity, and the index and the list hold the same keys.
ThreadSafe ==
  Quiescent =>
    /\ size = SumSizes(ls)
    /\ size <= capacity
    /\ DOMAIN table = HeldKeys
    /\ Cardinality(DOMAIN table) = Len(ls)

\* C17: every call that has started returns, and an eviction pass removes at most as many
\* entries as the list held when the pass began.
EveryCallReturns ==
  /\ [](\A g \in DOMAIN gor : gor[g].iters <= gor[g].start)
  /\ \A g \in Goroutines : Busy(g) ~> AtIdle(g)

\* a Put has returned from an eviction pass of two iterations
EveryCallReturnsWitness ==
  /\ 1 \in DOMAIN gor
  /\ gor[1].pc = "ret" /\ gor[1].op = "Put"
  /\ gor[1].iters >= 2
  /\ size <= capacity

====
